---- MODULE Spec2Model ----
(***************************************************************************)
(* PHIVOLCS earthquake pipeline: the incremental scraper's router          *)
(* (scrape_github_actions.py), the master splitter                         *)
(* (partition_master_2025.py) and the monthly combiner                     *)
(* (combine_all_months.py), modelled over a small file system of CSV files.*)
(*                                                                         *)
(* A raw timestamp string is a record of the features the parsers look at: *)
(* its layout (shape), the whitespace and dash characters it is written    *)
(* with, the casing of its AM/PM marker, a trailing timezone word, and the *)
(* digits of its date.  A CSV row is the tuple of its cells.               *)
(***************************************************************************)
EXTENDS Integers, Sequences, FiniteSets, TLC

VARIABLES files, master, last, combined, probe, running

vars == <<files, master, last, combined, probe, running>>

----------------------------------------------------------------------------
(* Bounds of the model *)

MaxBatch == 2
MaxFileRows == 2
MaxMasterRows == 3
MaxCombineRows == 3

----------------------------------------------------------------------------
(* Raw timestamp strings *)

\* layouts with a 12-hour clock and an AM/PM marker
MeridiemShapes ==
    {"dmy_full_dash", "dmy_abbr_dash", "dmy_full", "dmy_abbr",
     "dmy_full_comma", "dmy_abbr_comma", "mdy_words"}

\* layouts that contain a dash character
DashShapes ==
    {"iso_sec", "iso_min", "iso_T", "iso_date", "dmy_full_dash", "dmy_abbr_dash"}

\* "2025-04-11 12:07:00" is TS("iso_sec", 2025, 4, 11), written with plain
\* spaces and hyphens, an upper-case marker and no timezone word
TS(shape, y, m, d) ==
    [shape |-> shape, ws |-> "sp", dash |-> "hyphen",
     ampm |-> IF shape \in MeridiemShapes THEN "upper" ELSE "none",
     tz |-> FALSE, y |-> y, m |-> m, d |-> d]

\* the instant written in a string: its date digits, as one ordered number
DateOf(ts) == (ts.y * 100 + ts.m) * 100 + ts.d

YearOf(dt) == dt \div 10000
MonthOf(dt) == (dt \div 100) % 100

NaT == 0
ValueError == -1

----------------------------------------------------------------------------
(* scrape_github_actions.py: the normalizer *)

CleanDatetimeStr_keeps_dash(ts) ==
    [ts EXCEPT !.ws = "sp",
               !.tz = IF ts.ampm # "none" THEN FALSE ELSE ts.tz,
               !.ampm = IF ts.ampm # "none" THEN "upper" ELSE "none"]

\* lines 110-119: NBSP and whitespace runs become one space, en and em
\* dashes become hyphens, the text after an AM/PM marker is cut, the marker
\* is upper-cased
CleanDatetimeStr(ts) ==
    [ts EXCEPT !.ws = "sp",
               !.dash = "hyphen",
               !.tz = IF ts.ampm # "none" THEN FALSE ELSE ts.tz,
               !.ampm = IF ts.ampm # "none" THEN "upper" ELSE "none"]

\* lines 121-132: the strptime patterns, in order
candidates ==
    <<"iso_sec", "iso_min", "dmy_full_dash", "dmy_abbr_dash", "dmy_full",
      "dmy_abbr", "dmy_full_comma", "dmy_abbr_comma", "slash_sec", "slash_min">>

\* datetime.strptime(s, fmt): the whole string has to match the pattern
StrptimeMatches(s, fmt) ==
    /\ s.shape = fmt
    /\ s.ws = "sp"
    /\ s.dash = "hyphen"
    /\ s.ampm \in {"none", "upper"}
    /\ ~s.tz

\* datetime.fromisoformat(s.replace("/", "-").replace("T", " "))
FromIsoformatMatches(s) ==
    /\ s.shape \in {"iso_sec", "iso_min", "iso_T", "iso_date",
                    "slash_sec", "slash_min", "slash_date"}
    /\ s.ws = "sp"
    /\ s.dash = "hyphen"
    /\ ~s.tz

FileName(year, month) == year * 100 + month

month_filename_from_datetime_str(dt_str) ==
    LET s == CleanDatetimeStr(dt_str)
        dt == IF \/ \E i \in 1..Len(candidates) : StrptimeMatches(s, candidates[i])
                 \/ FromIsoformatMatches(s)
              THEN DateOf(s) ELSE NaT
    IN  IF dt = NaT THEN ValueError
        ELSE FileName(YearOf(dt), MonthOf(dt))

----------------------------------------------------------------------------
(* CSV files *)

StdHeader == <<"Date-Time", "Latitude", "Longitude", "Depth", "Magnitude", "Location">>

NoFile == [exists |-> FALSE, header |-> <<>>, rows |-> <<>>]

ColumnIndex(header, name) ==
    IF \E i \in 1..Len(header) : header[i] = name
    THEN CHOOSE i \in 1..Len(header) :
            /\ header[i] = name
            /\ \A j \in 1..(i - 1) : header[j] # name
    ELSE 0

\* A file written with newline="" keeps "\r\n" inside a quoted cell; read
\* back in text mode (open(path, "r")), "\r\n" and "\r" arrive as "\n"
TextModeRead(ts) == IF ts.ws = "crlf" THEN [ts EXCEPT !.ws = "lf"] ELSE ts

Range(s) == {s[i] : i \in 1..Len(s)}

IsPrefix(s, t) ==
    /\ Len(s) <= Len(t)
    /\ \A i \in 1..Len(s) : s[i] = t[i]

----------------------------------------------------------------------------
(* scrape_github_actions.py: the router *)

\* lines 40-54: the Date-Time cells of an existing file; an absent file, or
\* any error while reading (an I/O error, a file without a Date-Time column),
\* gives the empty set
load_existing_records_for_file(file, read_error) ==
    IF ~file.exists THEN {}
    ELSE IF read_error THEN {}
    ELSE LET c == ColumnIndex(file.header, "Date-Time")
         IN  IF c = 0
             THEN {}
             ELSE {TextModeRead(file.rows[i][c]) : i \in 1..Len(file.rows)}

\* lines 155-160: rows that are not empty, in batch order
NonEmptyRows(latest_data) ==
    LET NotEmpty(row) == Len(row) >= 1
    IN  SelectSeq(latest_data, NotEmpty)

\* lines 158-159 raise out of the grouping loop on the first bad timestamp
GroupingRaises(latest_data) ==
    \E row \in Range(NonEmptyRows(latest_data)) :
        month_filename_from_datetime_str(row[1]) = ValueError

rows_by_file_ungrouped(latest_data, csv_path) ==
    NonEmptyRows(latest_data)

rows_by_file(latest_data, csv_path) ==
    LET Targets(row) == month_filename_from_datetime_str(row[1]) = csv_path
    IN  SelectSeq(NonEmptyRows(latest_data), Targets)

TouchedFiles(latest_data) ==
    {month_filename_from_datetime_str(row[1]) : row \in Range(NonEmptyRows(latest_data))}

\* lines 154-160: the dictionary rows_by_file, when no timestamp is rejected
Grouped(latest_data) ==
    [f \in TouchedFiles(latest_data) |-> rows_by_file(latest_data, f)]

\* line 166, for every file of the dictionary
new_rows(fs, groups, read_errors) ==
    [f \in DOMAIN groups |->
        LET existing == load_existing_records_for_file(fs[f], f \in read_errors)
            IsNew(r) == r[1] \notin existing
        IN  SelectSeq(groups[f], IsNew)]

\* lines 172-179: append, with a header first when the file is created
WritePartition_truncating(file, rows) ==
    [exists |-> TRUE, header |-> StdHeader, rows |-> rows]

WritePartition_rechecking(file, rows) ==
    LET Absent(r) == \A i \in 1..Len(file.rows) : file.rows[i][1] # r[1]
    IN  [exists |-> TRUE,
         header |-> IF file.exists THEN file.header ELSE StdHeader,
         rows   |-> file.rows \o SelectSeq(rows, Absent)]

WritePartition(file, rows) ==
    [exists |-> TRUE,
     header |-> IF file.exists THEN file.header ELSE StdHeader,
     rows   |-> file.rows \o rows]

\* the files written by the loop of lines 164-183: those with new rows whose
\* write did not fail
WrittenFiles(new, write_errors) ==
    {f \in DOMAIN new : new[f] # <<>> /\ f \notin write_errors}

RECURSIVE SumOver(_, _)
SumOver(S, fn) ==
    IF S = {} THEN 0
    ELSE LET x == CHOOSE x \in S : TRUE
         IN  fn[x] + SumOver(S \ {x}, fn)

\* line 181: total_added
total_added(new, write_errors) ==
    LET W == WrittenFiles(new, write_errors)
    IN  SumOver(W, [f \in W |-> Len(new[f])])

\* lines 175-183: a write can fail when the file is opened, which leaves the
\* directory as it was, or after open(csv_path, "w") has created the file,
\* which leaves a file of no bytes: the rows are lost with the buffer
EmptyFile == [exists |-> TRUE, header |-> <<>>, rows |-> <<>>]

FilesAfterAppend(fs, new, write_errors, created) ==
    LET W == WrittenFiles(new, write_errors)
    IN  [f \in DOMAIN fs |->
            IF f \in W THEN WritePartition(fs[f], new[f])
            ELSE IF f \in created THEN EmptyFile
            ELSE fs[f]]

----------------------------------------------------------------------------
(* pandas' date parsing, as the two reconcilers call it *)

\* pd.to_datetime(text) without a format: ISO layouts directly, the other
\* layouts through dateutil, which skips "-", "/" and "," between fields,
\* takes any whitespace as a separator and ignores an unknown timezone word,
\* and fails on a character it has no rule for (an en or em dash) and on
\* text that is no date
PandasToDatetime(ts) ==
    IF /\ ts.shape \in {"iso_sec", "iso_min", "iso_T", "iso_date",
                        "dmy_full_dash", "dmy_abbr_dash", "dmy_full", "dmy_abbr",
                        "dmy_full_comma", "dmy_abbr_comma",
                        "slash_sec", "slash_min", "slash_date",
                        "mdy_slash", "mdy_words"}
       /\ ts.dash = "hyphen"
    THEN DateOf(ts)
    ELSE NaT

\* combine_all_months.py lines 19-39: an empty cell gives None; then the
\* fixed pattern "%d %B %Y - %I:%M %p"; then the general parse; None when
\* both fail
parse_datetime(ts) ==
    IF ts.shape = "empty" THEN NaT
    ELSE IF ts.shape = "dmy_full_dash" /\ ts.dash = "hyphen" /\ ~ts.tz
         THEN DateOf(ts)
         ELSE PandasToDatetime(ts)

----------------------------------------------------------------------------
(* partition_master_2025.py *)

TargetYear == 2025

DateLikeNames == {"Date-Time", "Date", "date"}

wanted_cols == StdHeader

\* lines 15-19: the first column whose name starts with "date"
date_col(header) ==
    IF \E i \in 1..Len(header) : header[i] \in DateLikeNames
    THEN CHOOSE i \in 1..Len(header) :
            /\ header[i] \in DateLikeNames
            /\ \A j \in 1..(i - 1) : header[j] \notin DateLikeNames
    ELSE 0

\* line 25
SplitDt(m, i) == PandasToDatetime(m.rows[i][date_col(m.header)])

\* lines 27-31: the rows that parsed, of the target year
parsed_2025_anyyear(m) ==
    {i \in 1..Len(m.rows) : SplitDt(m, i) # NaT}

parsed_2025(m) ==
    {i \in 1..Len(m.rows) : SplitDt(m, i) # NaT /\ YearOf(SplitDt(m, i)) = TargetYear}

\* line 37: sort_values('__dt') is not a stable sort, so rows of equal time
\* may come out in any order
SortedOrders(m) ==
    LET I == parsed_2025(m)
        n == Cardinality(I)
    IN  {o \in [1..n -> I] :
            /\ \A a, b \in 1..n : a # b => o[a] # o[b]
            /\ \A a, b \in 1..n : a < b => SplitDt(m, o[a]) <= SplitDt(m, o[b])}

\* line 43
cols_present(header) ==
    LET Present(c) == \E i \in 1..Len(header) : header[i] = c
    IN  SelectSeq(wanted_cols, Present)

Project(row, header, cols) ==
    [k \in 1..Len(cols) |-> row[ColumnIndex(header, cols[k])]]

SplitName(m, i) == FileName(YearOf(SplitDt(m, i)), MonthOf(SplitDt(m, i)))

\* line 47: the groups
SplitTargets(m) == {SplitName(m, i) : i \in parsed_2025(m)}

\* lines 48-51: one group, in the sorted order, with the wanted columns
GroupRows(m, order, f) ==
    LET InGroup(i) == SplitName(m, i) = f
        idx == SelectSeq(order, InGroup)
    IN  [k \in 1..Len(idx) |-> Project(m.rows[idx[k]], m.header, cols_present(m.header))]

SplitOutcome_lenient(m) ==
    IF ~m.exists THEN "exit0"
    ELSE IF date_col(m.header) = 0 THEN "exit0"
    ELSE IF parsed_2025(m) = {} THEN "exit0"
    ELSE "done"

\* lines 7-9, 20-22, 32-34: the exits of the script before it writes
SplitOutcome(m) ==
    IF ~m.exists THEN "exit1"
    ELSE IF date_col(m.header) = 0 THEN "exit1"
    ELSE IF parsed_2025(m) = {} THEN "exit0"
    ELSE "done"

FilesAfterSplit(fs, m, order) ==
    [f \in DOMAIN fs |->
        IF f \in SplitTargets(m)
        THEN [exists |-> TRUE,
              header |-> cols_present(m.header),
              rows   |-> GroupRows(m, order, f)]
        ELSE fs[f]]

----------------------------------------------------------------------------
(* The file system and the inputs of the router/split specification *)

\* combine_all_months.py lines 53-56: the four files not named by year and month
MayFile == 5
JuneFile == 6
JulyFile == 7
AugFile == 8

\* combine_all_months.py lines 48-57
monthly_files ==
    <<FileName(2025, 1), FileName(2025, 2), FileName(2025, 3), FileName(2025, 4),
      MayFile, JuneFile, JulyFile, AugFile>>

\* every file the runs of this model read or write
FileNames ==
    {monthly_files[i] : i \in 1..Len(monthly_files)}
        \cup {FileName(y, m) : y \in {2024, 2025}, m \in {4, 5}}

Row(ts, lat, depth) == <<ts, lat, "121.0", depth, "4.5", "Manila">>

\* "02 May 2025 -\r\n12:07 PM": a cell whose markup broke the line
BrokenLineTs == [TS("dmy_full_dash", 2025, 5, 2) EXCEPT !.ws = "crlf"]

\* the rows the page fetcher hands to the router, of six cells each (lines
\* 85-87): a row of April, a row of May with a broken line, a row whose
\* first cell is no date
ScrapedRows ==
    { Row(TS("iso_sec", 2025, 4, 11), "14.1", "10"),
      Row(BrokenLineTs, "14.1", "10"),
      Row(TS("text", 0, 0, 0), "14.1", "10") }

RECURSIVE SeqsUpTo(_, _)
SeqsUpTo(S, n) ==
    IF n = 0 THEN {<<>>}
    ELSE LET shorter == SeqsUpTo(S, n - 1)
         IN  shorter \cup {Append(q, x) : q \in {t \in shorter : Len(t) = n - 1}, x \in S}

Batches == SeqsUpTo(ScrapedRows, MaxBatch)

\* the rows of the master datasets given to Split
MasterRows ==
    { Row(TS("iso_sec", 2025, 4, 11), "14.1", "10"),
      Row(TS("iso_sec", 2025, 4, 9), "14.1", "33"),
      Row(TS("iso_sec", 2025, 5, 2), "14.1", "10"),
      Row(TS("iso_sec", 2024, 4, 11), "14.1", "10"),
      Row(TS("mdy_slash", 2025, 4, 11), "14.1", "33"),
      Row([TS("dmy_full_dash", 2025, 5, 2) EXCEPT !.dash = "en"], "14.1", "10") }

MasterFile(header, rows) == [exists |-> TRUE, header |-> header, rows |-> rows]

\* masters of the six columns, a master that also has Source_File (an output
\* of Combine), no master at all, and masters without a date column (in one
\* of them a column name holds "date" without beginning with it)
Masters ==
    {MasterFile(StdHeader, rows) : rows \in SeqsUpTo(MasterRows, MaxMasterRows)}
        \cup {MasterFile(StdHeader \o <<"Source_File">>,
                         <<Row(TS("iso_sec", 2025, 5, 2), "14.1", "10") \o <<"may">>,
                           Row(TS("iso_sec", 2025, 4, 9), "14.1", "33") \o <<"apr">> >>),
              NoFile,
              MasterFile(<<"Latitude", "Longitude">>, <<<<"14.1", "121.0">>>>),
              MasterFile(<<"Updated", "Latitude", "Longitude">>,
                         <<<<TS("iso_sec", 2025, 4, 11), "14.1", "121.0">>>>)}

NoRun ==
    [op |-> "none", prev |-> "none", batch |-> <<>>, outcome |-> "none", added |-> 0,
     written |-> {}, read_errors |-> {}, write_errors |-> {}, removed |-> 0]

NoOutput == [made |-> FALSE, rows |-> <<>>]

\* the invocations of the scraper that can be under way at the same time
Procs == {1, 2}

\* an invocation that is not running
Idle ==
    [pc |-> "idle", batch |-> <<>>, todo |-> <<>>, file |-> 0, snapshot |-> {},
     read_error |-> FALSE, new |-> <<>>, added |-> 0, outcome |-> "none"]

NoProbe ==
    [ts |-> TS("empty", 0, 0, 0), router |-> -2, combine |-> -2, split |-> -2]

\* the master datasets of the router/split specification
RouterMasters ==
    { NoFile,
      MasterFile(StdHeader, <<Row(TS("iso_sec", 2025, 4, 9), "14.1", "33")>>) }

Init ==
    /\ files = [f \in FileNames |-> NoFile]
    /\ master \in RouterMasters
    /\ last = NoRun
    /\ combined = NoOutput
    /\ probe = NoProbe
    /\ running = [p \in Procs |-> Idle]

\* what lines 154-160 make of each batch the fetcher can deliver
GroupedBatches ==
    [b \in Batches |->
        IF GroupingRaises(b)
        THEN [raised |-> TRUE, groups |-> <<>>]
        ELSE [raised |-> FALSE, groups |-> Grouped(b)]]

\* scrape_github_actions.py lines 151-185, one run on one batch
append_new_data_partitioned(latest_data) ==
    /\ UNCHANGED <<master, combined, probe, running>>
    /\ IF GroupedBatches[latest_data].raised
       THEN /\ files' = files
            /\ last' = [NoRun EXCEPT !.op = "router", !.batch = latest_data,
                                     !.outcome = "raised"]
       ELSE LET groups == GroupedBatches[latest_data].groups
                \* a read error on a file that yields no key changes nothing
                readable == {f \in DOMAIN groups :
                               load_existing_records_for_file(files[f], FALSE) # {}}
            IN  \E read_errors \in SUBSET readable :
                  LET new == new_rows(files, groups, read_errors)
                  IN  /\ \A f \in DOMAIN groups :
                            Len(files[f].rows) + Len(new[f]) <= MaxFileRows
                      /\ \E write_errors \in SUBSET {f \in DOMAIN groups : new[f] # <<>>} :
                         \E created \in SUBSET {f \in write_errors : ~files[f].exists} :
                            /\ files' = FilesAfterAppend(files, new, write_errors, created)
                            /\ last' = [NoRun EXCEPT
                                          !.op = "router",
                                          !.batch = latest_data,
                                          !.outcome = "returned",
                                          !.added = total_added(new, write_errors),
                                          !.written = WrittenFiles(new, write_errors),
                                          !.read_errors = read_errors,
                                          !.write_errors = write_errors]

Router == \E latest_data \in Batches : append_new_data_partitioned(latest_data)

\* partition_master_2025.py, one run
Split ==
    /\ UNCHANGED <<master, combined, probe, running>>
    /\ IF SplitOutcome(master) # "done"
       THEN /\ files' = files
            /\ last' = [NoRun EXCEPT !.op = "split", !.outcome = SplitOutcome(master)]
       ELSE \E order \in SortedOrders(master) :
               /\ files' = FilesAfterSplit(files, master, order)
               /\ last' = [NoRun EXCEPT !.op = "split", !.outcome = "done",
                                        !.written = SplitTargets(master)]

Next == Router \/ Split

Spec == Init /\ [][Next]_vars

----------------------------------------------------------------------------
(* Claims about the router, checked under Spec *)

\* the partition a timestamp string belongs to by the date written in it
KeyWritten(ts) == FileName(ts.y, ts.m)

CleanRun(run) ==
    /\ run.op = "router"
    /\ run.outcome = "returned"
    /\ run.read_errors = {}
    /\ run.write_errors = {}

\* C1: a router run that repeats the batch of the run just before it (every
\* timestamp of the batch accepted, no read or write error in either run)
\* leaves every partition file as it was and returns 0.
C1_RouterIdempotent ==
    [][(CleanRun(last) /\ last'.op = "router" /\ last'.batch = last.batch
            /\ last'.read_errors = {} /\ last'.write_errors = {})
        => (files' = files /\ last'.outcome = "returned" /\ last'.added = 0)]_vars

\* C2: a row stored in a partition file is still in that file after every
\* later run, of the router or of Split.
C2_NoRecordLost ==
    [][\A f \in FileNames : \A i \in 1..Len(files[f].rows) :
           \E j \in 1..Len(files'[f].rows) : files'[f].rows[j] = files[f].rows[i]]_vars

\* C3: every row a router run appends to the partition file of (Y, M) carries
\* a timestamp of year Y and month M, and the normalizer maps it to (Y, M).
C3_PartitionCorrect ==
    [][last'.op = "router"
        => \A f \in FileNames :
             \A i \in (Len(files[f].rows) + 1)..Len(files'[f].rows) :
                /\ KeyWritten(files'[f].rows[i][1]) = f
                /\ month_filename_from_datetime_str(files'[f].rows[i][1]) = f]_vars

\* a run that appended rows to two different partitions
C3_Witness ==
    /\ last.op = "router"
    /\ Cardinality(last.written) = 2
    /\ last.added >= 2

\* C4: after a router run without write errors, every row of the batch whose
\* timestamp the normalizer accepts is stored in its partition, also when
\* another row of the batch has a timestamp the normalizer rejects.
C4_BadRowDroppedAlone ==
    (last.op = "router" /\ last.write_errors = {})
        => \A i \in 1..Len(last.batch) :
              LET r == last.batch[i]
              IN  (Len(r) >= 1 /\ month_filename_from_datetime_str(r[1]) # ValueError)
                    => \E j \in 1..Len(files[month_filename_from_datetime_str(r[1])].rows) :
                          files[month_filename_from_datetime_str(r[1])].rows[j][1] = r[1]

BatchKeys(batch) == {KeyWritten(r[1]) : r \in Range(NonEmptyRows(batch))}

\* C5: a router run only appends: the rows a file held stay as a prefix of
\* its rows, an existing file keeps its header and a header is written only
\* into a file the run creates, and a file that is not the partition of a
\* row of the batch is neither changed nor created.
C5_AppendOnly ==
    [][last'.op = "router"
        => \A f \in FileNames :
             /\ IsPrefix(files[f].rows, files'[f].rows)
             /\ files[f].exists => (files'[f].exists /\ files'[f].header = files[f].header)
             /\ (~files[f].exists /\ files'[f].exists)
                   => \/ files'[f].header = StdHeader
                      \/ f \in last'.write_errors /\ files'[f] = EmptyFile
             /\ f \notin BatchKeys(last'.batch) => files'[f] = files[f]]_vars

\* a run that extended a partition that already held rows, while another
\* existing partition was not touched
C5_Witness ==
    /\ last.op = "router"
    /\ \E f \in last.written : Len(files[f].rows) > last.added
    /\ \E g \in FileNames \ last.written : files[g].exists

----------------------------------------------------------------------------
(* Split alone, on any master and over partitions that may already exist *)

StoredFile(rows) == [exists |-> TRUE, header |-> StdHeader, rows |-> rows]

SplitInitFiles ==
    { [f \in FileNames |-> NoFile],
      [f \in FileNames |->
          IF f = FileName(2025, 4)
          THEN StoredFile(<<Row(TS("dmy_full_dash", 2025, 4, 11), "14.1", "10")>>)
          ELSE NoFile],
      [f \in FileNames |->
          IF f = FileName(2025, 5)
          THEN StoredFile(<<Row(TS("iso_sec", 2025, 5, 2), "14.1", "10")>>)
          ELSE IF f = FileName(2024, 4)
          THEN StoredFile(<<Row(TS("iso_sec", 2024, 4, 11), "14.1", "10")>>)
          ELSE NoFile] }

InitSplit ==
    /\ files \in SplitInitFiles
    /\ master \in Masters
    /\ last = NoRun
    /\ combined = NoOutput
    /\ probe = NoProbe
    /\ running = [p \in Procs |-> Idle]

NextSplit == Split

SpecSplit == InitSplit /\ [][NextSplit]_vars

Count(seq, x) == Cardinality({i \in 1..Len(seq) : seq[i] = x})

\* the master rows whose timestamp parses to the target year and to the month
\* of file f
C10_RowsOf(f) ==
    {i \in 1..Len(master.rows) :
        LET dt == PandasToDatetime(master.rows[i][date_col(master.header)])
        IN  dt # NaT /\ YearOf(dt) = 2025 /\ FileName(2025, MonthOf(dt)) = f}

\* C10: a Split run on a master with a date column writes the file of
\* (2025, M) exactly when a master row parses to 2025 and M; a written file
\* holds exactly those rows (their six columns), ascending by parsed time; a
\* file with no such row is left as it was; and when no row parses to 2025
\* the run writes nothing and exits with status 0.
C10_SplitExact ==
    [][(last'.op = "split" /\ master.exists /\ date_col(master.header) # 0)
        => /\ \A f \in FileNames :
                LET I == C10_RowsOf(f)
                    out == files'[f].rows
                IN  /\ f \in last'.written <=> I # {}
                    /\ I = {} => files'[f] = files[f]
                    /\ I # {} =>
                         /\ files'[f].exists
                         /\ Len(out) = Cardinality(I)
                         /\ \A i \in I :
                               Count(out, SubSeq(master.rows[i], 1, 6))
                                 = Cardinality({j \in I : SubSeq(master.rows[j], 1, 6)
                                                            = SubSeq(master.rows[i], 1, 6)})
                         /\ \A a, b \in 1..Len(out) :
                               a < b => PandasToDatetime(out[a][1]) <= PandasToDatetime(out[b][1])
           /\ (\A f \in FileNames : C10_RowsOf(f) = {})
                 => (last'.outcome = "exit0" /\ files' = files)]_vars

\* a run on a master with a row of another year, which wrote a file of two
\* rows that the master holds in the opposite order
C10_Witness ==
    /\ last.op = "split"
    /\ last.outcome = "done"
    /\ \E k \in 1..Len(master.rows) : master.rows[k][1].y = 2024
    /\ \E f \in last.written :
          /\ Len(files[f].rows) = 2
          /\ \E i, j \in 1..Len(master.rows) :
                /\ i < j
                /\ PandasToDatetime(master.rows[j][1]) < PandasToDatetime(master.rows[i][1])
                /\ files[f].rows = <<master.rows[j], master.rows[i]>>

\* C12: a Split run whose master file is missing, or whose master has no
\* column with a name that begins with "date", ends with exit status 1 and
\* leaves every partition file as it was: none written, created or replaced.
C12_SplitAbortsUntouched ==
    [][(/\ last'.op = "split"
        /\ \/ ~master.exists
           \/ \A i \in 1..Len(master.header) : master.header[i] \notin DateLikeNames)
        => /\ files' = files
           /\ last'.outcome = "exit1"
           /\ last'.written = {}]_vars

\* a run on a master whose only date-like column name does not begin with
\* "date", while a partition file was stored
C12_Witness ==
    /\ last.op = "split"
    /\ last.outcome = "exit1"
    /\ master.exists
    /\ \E i \in 1..Len(master.header) : master.header[i] = "Updated"
    /\ \E f \in FileNames : files[f].exists

----------------------------------------------------------------------------
(* The three date parsers on the same timestamp string *)

Pending == -2

Dates == {<<2025, 8, 11>>, <<2024, 12, 31>>}

AllShapes ==
    Range(candidates)
        \cup {"iso_T", "iso_date", "slash_date", "mdy_slash", "mdy_words", "text", "empty"}

\* the strings handed to the parsers: every layout, written with hyphens or
\* with en or em dashes, its AM/PM marker in upper or lower case
ProbeStrings ==
    {ts \in [shape : AllShapes \ {"text", "empty"}, ws : {"sp"},
             dash : {"hyphen", "en", "em"}, ampm : {"none", "upper", "lower"},
             tz : {FALSE}, y : {2024, 2025}, m : {8, 12}, d : {11, 31}] :
        /\ <<ts.y, ts.m, ts.d>> \in Dates
        /\ (ts.shape \in MeridiemShapes) <=> (ts.ampm # "none")
        /\ (ts.shape \notin DashShapes) => ts.dash = "hyphen"}
      \cup {TS("text", 0, 0, 0), TS("empty", 0, 0, 0)}

NewProbe(ts) == [ts |-> ts, router |-> Pending, combine |-> Pending, split |-> Pending]

InitParse ==
    /\ files = [f \in FileNames |-> NoFile]
    /\ master = NoFile
    /\ last = NoRun
    /\ combined = NoOutput
    /\ probe \in {NewProbe(ts) : ts \in ProbeStrings}
    /\ running = [p \in Procs |-> Idle]

\* scrape_github_actions.py line 159
RouterParses ==
    /\ probe.router = Pending
    /\ probe' = [probe EXCEPT !.router = month_filename_from_datetime_str(probe.ts)]
    /\ UNCHANGED <<files, master, last, combined, running>>

\* combine_all_months.py line 88
CombineParses ==
    /\ probe.combine = Pending
    /\ probe' = [probe EXCEPT !.combine = parse_datetime(probe.ts)]
    /\ UNCHANGED <<files, master, last, combined, running>>

\* partition_master_2025.py line 25
SplitParses ==
    /\ probe.split = Pending
    /\ probe' = [probe EXCEPT !.split = PandasToDatetime(probe.ts)]
    /\ UNCHANGED <<files, master, last, combined, running>>

NextParse == RouterParses \/ CombineParses \/ SplitParses

SpecParse == InitParse /\ [][NextParse]_vars

\* C6: a timestamp string that the router's normalizer files under (Y, M) is
\* given a timestamp by Combine's parse_datetime and by Split's parsing, and
\* that timestamp has year Y and month M.
C6_ParsersAgree ==
    (probe.router \notin {Pending, ValueError})
        => /\ probe.combine # Pending
                => /\ probe.combine # NaT
                   /\ FileName(YearOf(probe.combine), MonthOf(probe.combine)) = probe.router
           /\ probe.split # Pending
                => /\ probe.split # NaT
                   /\ FileName(YearOf(probe.split), MonthOf(probe.split)) = probe.router

----------------------------------------------------------------------------
(* combine_all_months.py *)

NaN == -1

\* pd.to_numeric(..., errors='coerce'): the number written in a cell, in
\* tenths; NaN for a cell that is no number
to_numeric(cell) ==
    CASE cell = "14.1"  -> 141
      [] cell = "14.10" -> 141
      [] cell = "121.0" -> 1210
      [] cell = "10"    -> 100
      [] cell = "33"    -> 330
      [] cell = "4.5"   -> 45
      [] OTHER          -> NaN

\* lines 12-17: whitespace runs become one space, the ends are trimmed
clean_location(location) ==
    CASE location = " Manila\n"      -> "Manila"
      [] location = "Metro\n Manila" -> "Metro Manila"
      [] OTHER                       -> location

\* lines 85-94 and 105, on one row of a file
CleanRow(file, row, source) ==
    <<parse_datetime(row[ColumnIndex(file.header, "Date-Time")]),
      to_numeric(row[ColumnIndex(file.header, "Latitude")]),
      to_numeric(row[ColumnIndex(file.header, "Longitude")]),
      to_numeric(row[ColumnIndex(file.header, "Depth")]),
      to_numeric(row[ColumnIndex(file.header, "Magnitude")]),
      clean_location(row[ColumnIndex(file.header, "Location")]),
      source>>

\* line 98: dropna(subset=['Latitude', 'Longitude', 'Magnitude'])
HasCoordinates(r) == r[2] # NaN /\ r[3] # NaN /\ r[5] # NaN

\* lines 70-72 and 110-111: an absent file is skipped, and so is a file that
\* raises while it is processed (a column is missing)
Loadable(file) ==
    /\ file.exists
    /\ \A c \in Range(StdHeader) : ColumnIndex(file.header, c) # 0

\* lines 79-107: the cleaned rows of one file that keep their coordinates
LoadFile(file, source) ==
    LET cleaned == [i \in 1..Len(file.rows) |-> CleanRow(file, file.rows[i], source)]
    IN  SelectSeq(cleaned, HasCoordinates)

RECURSIVE all_data_stops(_, _)
all_data_stops(fs, i) ==
    IF i > Len(monthly_files) THEN <<>>
    ELSE IF ~fs[monthly_files[i]].exists THEN all_data_stops(fs, i + 1)
    ELSE IF Loadable(fs[monthly_files[i]])
    THEN LoadFile(fs[monthly_files[i]], monthly_files[i]) \o all_data_stops(fs, i + 1)
    ELSE <<>>

\* line 119: the loaded files, one after the other in the order of the list
RECURSIVE all_data(_, _)
all_data(fs, i) ==
    IF i > Len(monthly_files) THEN <<>>
    ELSE (IF Loadable(fs[monthly_files[i]])
          THEN LoadFile(fs[monthly_files[i]], monthly_files[i])
          ELSE <<>>) \o all_data(fs, i + 1)

RECURSIVE Pick(_, _, _)
Pick(rows, keep, i) ==
    IF i > Len(rows) THEN <<>>
    ELSE (IF i \in keep THEN <<rows[i]>> ELSE <<>>) \o Pick(rows, keep, i + 1)

AllColumns(r) == r

\* line 132: Date-Time, Latitude, Longitude, Magnitude
SemanticKey(r) == <<r[1], r[2], r[3], r[5]>>

\* DataFrame.drop_duplicates: keys[i] is what row i is compared by
drop_duplicates_keep_last(rows, keys) ==
    Pick(rows,
         {i \in 1..Len(rows) : \A j \in (i + 1)..Len(rows) : keys[j] # keys[i]},
         1)

drop_duplicates(rows, keys) ==
    Pick(rows,
         {i \in 1..Len(rows) : \A j \in 1..(i - 1) : keys[j] # keys[i]},
         1)

\* line 128
ExactUnique(rows) ==
    drop_duplicates(rows, [i \in 1..Len(rows) |-> AllColumns(rows[i])])

\* lines 128-134
Deduplicated_exact_only(rows) == ExactUnique(rows)

Deduplicated_keep_last(rows) ==
    LET exact == ExactUnique(rows)
    IN  drop_duplicates_keep_last(exact, [i \in 1..Len(exact) |-> SemanticKey(exact[i])])

Deduplicated(rows) ==
    LET exact == ExactUnique(rows)
    IN  drop_duplicates(exact, [i \in 1..Len(exact) |-> SemanticKey(exact[i])])

\* line 143: descending by Date-Time, missing times last; the sort is not
\* stable, rows of equal time may come out in any order
SortedDescending(rows) ==
    {[k \in 1..Len(rows) |-> rows[o[k]]] :
        o \in {p \in [1..Len(rows) -> 1..Len(rows)] :
                 /\ \A a, b \in 1..Len(rows) : a # b => p[a] # p[b]
                 /\ \A a, b \in 1..Len(rows) : a < b => rows[p[a]][1] >= rows[p[b]][1]}}

\* combine_all_months.py lines 41-165, one run
Combine ==
    /\ UNCHANGED <<files, master, probe, running>>
    /\ IF \A i \in 1..Len(monthly_files) : ~Loadable(files[monthly_files[i]])
       THEN /\ combined' = NoOutput
            /\ last' = [NoRun EXCEPT !.op = "combine", !.prev = last.op,
                                     !.outcome = "no_data"]
       ELSE LET loaded == all_data(files, 1)
                unique == Deduplicated(loaded)
            IN  \E out \in SortedDescending(unique) :
                   /\ combined' = [made |-> TRUE, rows |-> out]
                   /\ last' = [NoRun EXCEPT !.op = "combine", !.prev = last.op,
                                            !.outcome = "done",
                                            !.removed = Len(loaded) - Len(unique)]

----------------------------------------------------------------------------
(* Combine alone, over partition files of any content *)

\* rows found in the files given to Combine: an event, the same event in
\* another rendering (other timestamp text, latitude text, depth, location
\* text), another event, a row without a latitude, a row whose timestamp no
\* parser of Combine reads, a row whose timestamp cell is no date ("N/A")
CombineRows ==
    { Row(TS("iso_sec", 2025, 4, 11), "14.1", "10"),
      <<TS("dmy_full_dash", 2025, 4, 11), "14.10", "121.0", "33", "4.5", " Manila\n">>,
      Row(TS("iso_sec", 2025, 5, 2), "14.1", "10"),
      Row(TS("iso_sec", 2025, 4, 11), "n/a", "10"),
      Row([TS("dmy_full_dash", 2025, 5, 2) EXCEPT !.dash = "en"], "14.1", "10"),
      Row(TS("text", 0, 0, 0), "14.1", "10") }

\* up to MaxCombineRows rows, the first k of them in the April file and the
\* others in the May file; a file with no row is absent
Layout(rows, k) ==
    [f \in FileNames |->
        IF f = FileName(2025, 4) /\ k > 0
        THEN StoredFile(SubSeq(rows, 1, k))
        ELSE IF f = MayFile /\ k < Len(rows)
        THEN StoredFile(SubSeq(rows, k + 1, Len(rows)))
        ELSE NoFile]

CombineInitFiles ==
    UNION {{Layout(rows, k) : k \in 0..Len(rows)} :
              rows \in SeqsUpTo(CombineRows, MaxCombineRows)}

InitCombine ==
    /\ files \in CombineInitFiles
    /\ master = NoFile
    /\ last = NoRun
    /\ combined = NoOutput
    /\ probe = NoProbe
    /\ running = [p \in Procs |-> Idle]

NextCombine == Combine

SpecCombine == InitCombine /\ [][NextCombine]_vars

\* the rows of the listed files in input order, each with its file
RECURSIVE InputRows(_)
InputRows(i) ==
    IF i > Len(monthly_files) THEN <<>>
    ELSE LET f == monthly_files[i]
         IN  [k \in 1..Len(files[f].rows) |-> [file |-> f, row |-> files[f].rows[k]]]
                \o InputRows(i + 1)

\* (canonical timestamp, latitude, longitude, magnitude) of a stored row
TupleOf(row) ==
    <<parse_datetime(row[1]), to_numeric(row[2]), to_numeric(row[3]), to_numeric(row[5])>>

TupleComplete(row) == \A k \in 1..4 : TupleOf(row)[k] \notin {NaT, NaN}

OutputWith(tuple) ==
    {k \in 1..Len(combined.rows) : SemanticKey(combined.rows[k]) = tuple}

FirstWith(inp, tuple) ==
    CHOOSE k \in 1..Len(inp) :
        /\ TupleOf(inp[k].row) = tuple
        /\ \A j \in 1..(k - 1) : TupleOf(inp[j].row) # tuple

\* C8: when two input rows differ in their raw timestamp text and have the
\* same complete (canonical timestamp, latitude, longitude, magnitude), the
\* merged output holds exactly one row with these four values, and it is the
\* cleaned first input row that has them, tagged with its file.
C8_SemanticKeepsFirst ==
    last.op = "combine"
        => LET inp == InputRows(1)
           IN  \A p, q \in 1..Len(inp) :
                  (/\ p < q
                   /\ inp[p].row[1] # inp[q].row[1]
                   /\ TupleComplete(inp[p].row)
                   /\ TupleOf(inp[p].row) = TupleOf(inp[q].row))
                    => /\ combined.made
                       /\ Cardinality(OutputWith(TupleOf(inp[p].row))) = 1
                       /\ LET first == inp[FirstWith(inp, TupleOf(inp[p].row))]
                          IN  \E k \in OutputWith(TupleOf(inp[p].row)) :
                                 combined.rows[k]
                                    = CleanRow(files[first.file], first.row, first.file)

\* a run over two files, each with one rendering of the same event, whose
\* output also holds another row
C8_Witness ==
    /\ last.op = "combine"
    /\ Len(combined.rows) = 2
    /\ \E a \in 1..Len(files[FileName(2025, 4)].rows) :
       \E b \in 1..Len(files[MayFile].rows) :
          LET x == files[FileName(2025, 4)].rows[a]
              y == files[MayFile].rows[b]
          IN  /\ x[1] # y[1]
              /\ x[4] # y[4]
              /\ TupleComplete(x)
              /\ TupleOf(x) = TupleOf(y)

SixColumns(r) == SubSeq(r, 1, 6)

\* C9 as claimed: of two input rows that are identical in all six columns,
\* exactly one is in the merged output.
C9_IdenticalRowsOneSurvives ==
    last.op = "combine"
        => LET inp == InputRows(1)
           IN  \A p, q \in 1..Len(inp) :
                  (p < q /\ inp[p].row = inp[q].row)
                    => Cardinality({k \in 1..Len(combined.rows) :
                          SixColumns(combined.rows[k])
                             = SixColumns(CleanRow(files[inp[p].file], inp[p].row,
                                                    inp[p].file))}) = 1

\* C9 as amended: of two input rows that are identical in all six columns
\* and have a latitude, a longitude and a magnitude, the merged output holds
\* exactly one row with their (canonical timestamp, latitude, longitude,
\* magnitude); it is one of the two unless an earlier input row has the same
\* four values.
C9_IdenticalRowsOneEvent ==
    last.op = "combine"
        => LET inp == InputRows(1)
           IN  \A p, q \in 1..Len(inp) :
                  (p < q /\ inp[p].row = inp[q].row
                         /\ HasCoordinates(CleanRow(files[inp[p].file], inp[p].row, inp[p].file)))
                    => /\ combined.made
                       /\ Cardinality(OutputWith(TupleOf(inp[p].row))) = 1
                       /\ FirstWith(inp, TupleOf(inp[p].row)) = p
                            => \E k \in 1..Len(combined.rows) :
                                  SixColumns(combined.rows[k])
                                     = SixColumns(CleanRow(files[inp[p].file], inp[p].row,
                                                            inp[p].file))

\* a run over two files that both hold the same row, with coordinates
C9_Witness ==
    /\ last.op = "combine"
    /\ combined.made
    /\ \E a \in 1..Len(files[FileName(2025, 4)].rows) :
       \E b \in 1..Len(files[MayFile].rows) :
          /\ files[FileName(2025, 4)].rows[a] = files[MayFile].rows[b]
          /\ to_numeric(files[MayFile].rows[b][2]) # NaN

----------------------------------------------------------------------------
(* Split, then Combine *)

InitRoundTrip ==
    /\ files = [f \in FileNames |-> NoFile]
    /\ master \in Masters
    /\ last = NoRun
    /\ combined = NoOutput
    /\ probe = NoProbe
    /\ running = [p \in Procs |-> Idle]

NextRoundTrip == Split \/ Combine

SpecRoundTrip == InitRoundTrip /\ [][NextRoundTrip]_vars

\* the 2025 rows of the master that parse in Split and in Combine
C7_Expected ==
    {i \in 1..Len(master.rows) :
        LET ts == master.rows[i][date_col(master.header)]
        IN  /\ PandasToDatetime(ts) # NaT
            /\ YearOf(PandasToDatetime(ts)) = 2025
            /\ parse_datetime(ts) # NaT}

C7_Returned == {k \in 1..Len(combined.rows) : YearOf(combined.rows[k][1]) = 2025}

\* C7: for a master without duplicate events, Combine run right after Split
\* on files that only Split wrote returns, among its 2025 rows, exactly the
\* 2025 rows of the master that parse: every such master row once, and
\* nothing else.
C7_RoundTrip ==
    (/\ last.op = "combine" /\ last.prev = "split"
     /\ master.exists /\ date_col(master.header) # 0
     /\ \A i, j \in 1..Len(master.rows) :
           i # j => TupleOf(master.rows[i]) # TupleOf(master.rows[j]))
        => /\ \A i \in C7_Expected :
                 Cardinality({k \in C7_Returned :
                    SixColumns(combined.rows[k])
                       = SixColumns(CleanRow(master, master.rows[i], 0))}) = 1
           /\ \A k \in C7_Returned :
                 \E i \in C7_Expected :
                    SixColumns(combined.rows[k])
                       = SixColumns(CleanRow(master, master.rows[i], 0))

----------------------------------------------------------------------------
(* scrape_github_actions.py: main, from the page fetch to the router *)

\* what requests.get and the search for the table come to (lines 60-97): a
\* network error, a page without an earthquake table, an exception while
\* the table is read, or a table that is read to its end
PageKinds == {"network_error", "no_table", "error", "table"}

\* a table row of fewer than six cells
ShortRow == <<TS("iso_sec", 2025, 4, 11), "14.1", "121.0">>

\* the table rows of a page: rows of six cells, after a short row or not; a
\* page that did not arrive, or has no table, has none, and a page whose
\* reading raised had at most one row read
Pages ==
    {[kind |-> "table", rows |-> rows] :
        rows \in Batches \cup {<<ShortRow>> \o b : b \in {c \in Batches : Len(c) < MaxBatch}}}
      \cup {[kind |-> "error", rows |-> rows] : rows \in {c \in Batches : Len(c) <= 1}}
      \cup {[kind |-> k, rows |-> <<>>] : k \in {"network_error", "no_table"}}

\* lines 83-87: the rows of six cells or more, cut to six cells, the location
\* cleaned
TableData(rows) ==
    LET Long(row) == Len(row) >= 6
        kept == SelectSeq(rows, Long)
    IN  [i \in 1..Len(kept) |->
            [SubSeq(kept[i], 1, 6) EXCEPT ![6] = clean_location(kept[i][6])]]

\* lines 56-97: every failure returns the empty list, whatever was read
scrape_latest_month_partial(page) ==
    IF page.kind \in {"network_error", "no_table"} THEN <<>> ELSE TableData(page.rows)

scrape_latest_month(page) ==
    IF page.kind # "table" THEN <<>> ELSE TableData(page.rows)

\* lines 206-230, one run of the scraper on one answer of the server
main(page) ==
    LET latest_data == scrape_latest_month(page)
    IN  IF latest_data = <<>>
        THEN /\ files' = files
             /\ last' = [NoRun EXCEPT !.op = "main",
                                      !.outcome = IF page.kind = "table"
                                                  THEN "no_rows" ELSE page.kind]
             /\ UNCHANGED <<master, combined, probe, running>>
        ELSE append_new_data_partitioned(latest_data)

Main == \E page \in Pages : main(page)

InitMain ==
    /\ files = [f \in FileNames |-> NoFile]
    /\ master = NoFile
    /\ last = NoRun
    /\ combined = NoOutput
    /\ probe = NoProbe
    /\ running = [p \in Procs |-> Idle]

NextMain == Main

SpecMain == InitMain /\ [][NextMain]_vars

\* the fetch failed, or the page gave no row of six cells
FetchGaveNothing(page) ==
    \/ page.kind # "table"
    \/ \A i \in 1..Len(page.rows) : Len(page.rows[i]) < 6

\* C11: a scraper run whose page fetch fails (network error, no table, an
\* error while the table is read) or yields no row ends without creating or
\* changing any partition file.
C11_FetchFailureUntouched ==
    [][\A page \in Pages :
          (FetchGaveNothing(page) /\ main(page))
             => /\ files' = files
                /\ last'.op = "main"
                /\ last'.added = 0]_vars

\* a run that ended on a failed fetch while partition files were stored
C11_Witness ==
    /\ last.op = "main"
    /\ last.outcome \in {"network_error", "no_table", "error", "no_rows"}
    /\ \E f \in FileNames : files[f].exists /\ Len(files[f].rows) >= 1

----------------------------------------------------------------------------
(* The router's normalizer on noisy renderings of the supported layouts *)

\* the layouts of lines 121-132
SupportedShapes == Range(candidates)

\* every supported layout, written with spaces or non-breaking spaces, with
\* hyphens or en or em dashes, its AM/PM marker in upper, lower or mixed
\* case, with or without a timezone word at its end
NoisyStrings ==
    {ts \in [shape : SupportedShapes, ws : {"sp", "nbsp"},
             dash : {"hyphen", "en", "em"},
             ampm : {"none", "upper", "lower", "mixed"},
             tz : BOOLEAN, y : {2024, 2025}, m : {8, 12}, d : {11, 31}] :
        /\ <<ts.y, ts.m, ts.d>> \in Dates
        /\ (ts.shape \in MeridiemShapes) <=> (ts.ampm # "none")
        /\ (ts.shape \notin DashShapes) => ts.dash = "hyphen"}

InitNormalize ==
    /\ files = [f \in FileNames |-> NoFile]
    /\ master = NoFile
    /\ last = NoRun
    /\ combined = NoOutput
    /\ probe \in {NewProbe(ts) : ts \in NoisyStrings}
    /\ running = [p \in Procs |-> Idle]

NextNormalize == RouterParses

SpecNormalize == InitNormalize /\ [][NextNormalize]_vars

\* C13: a timestamp of a supported layout, written with non-breaking spaces,
\* with en or em dashes, with its AM/PM marker in any casing, or with a
\* timezone word after the AM/PM marker, is accepted by the normalizer and
\* filed under the year and month written in it, as its clean form is.
C13_NoiseTolerated ==
    (/\ probe.router # Pending
     /\ probe.ts.shape \in SupportedShapes
     /\ probe.ts.tz => probe.ts.ampm # "none")
        => /\ probe.router # ValueError
           /\ probe.router = FileName(probe.ts.y, probe.ts.m)
           /\ probe.router
                = month_filename_from_datetime_str(
                     TS(probe.ts.shape, probe.ts.y, probe.ts.m, probe.ts.d))

\* "11 August 2025 — 12:07 pm PST" with non-breaking spaces, filed
\* under 2025_08
C13_Witness ==
    /\ probe.router = FileName(2025, 8)
    /\ probe.ts.shape = "dmy_full_dash"
    /\ probe.ts.ws = "nbsp"
    /\ probe.ts.dash = "em"
    /\ probe.ts.ampm = "lower"
    /\ probe.ts.tz

----------------------------------------------------------------------------
(* Router runs one after the other, checked under SpecMain *)

\* C14: after any number of router runs, one at a time, no partition file
\* holds two data rows with the same raw Date-Time string.
C14_NoDuplicateKeys ==
    \A f \in FileNames :
        \A i, j \in 1..Len(files[f].rows) :
            i # j => files[f].rows[i][1] # files[f].rows[j][1]

----------------------------------------------------------------------------
(* Two invocations of the router at the same time: each call of            *)
(* append_new_data_partitioned takes its steps between the steps of the    *)
(* other, one step to load the keys of a file (line 165) and one to append *)
(* the rows that are new (lines 172-181)                                   *)

\* line 164: the files of the dictionary, in the order their first rows
\* come in the batch
FileOrder(latest_data) ==
    LET rows == NonEmptyRows(latest_data)
        First(i) ==
            \A j \in 1..(i - 1) :
                month_filename_from_datetime_str(rows[j][1])
                    # month_filename_from_datetime_str(rows[i][1])
        idx == SelectSeq([i \in 1..Len(rows) |-> i], First)
    IN  [k \in 1..Len(idx) |-> month_filename_from_datetime_str(rows[idx[k]][1])]

\* the loop of line 164 moves to its next file, or the call returns (line 185)
NextFile(run, added) ==
    IF Len(run.todo) > 1
    THEN [run EXCEPT !.pc = "load", !.todo = Tail(run.todo), !.added = added]
    ELSE [run EXCEPT !.pc = "idle", !.batch = <<>>, !.todo = <<>>, !.added = added,
                     !.outcome = "returned"]

\* lines 154-162: the call starts and groups its batch
Invoke(p, latest_data) ==
    /\ running[p].pc = "idle"
    /\ running' = [running EXCEPT ![p] =
          IF GroupedBatches[latest_data].raised
          THEN [Idle EXCEPT !.outcome = "raised"]
          ELSE IF FileOrder(latest_data) = <<>>
          THEN [Idle EXCEPT !.outcome = "returned"]
          ELSE [Idle EXCEPT !.pc = "load", !.batch = latest_data,
                            !.todo = FileOrder(latest_data)]]
    /\ UNCHANGED <<files, master, last, combined, probe>>

\* lines 165-170: the keys of the file as it is now, and the rows of the
\* batch that are not among them
LoadKeys(p) ==
    /\ running[p].pc = "load"
    /\ LET f == Head(running[p].todo)
       IN  \E read_error \in (IF files[f].exists THEN BOOLEAN ELSE {FALSE}) :
              LET existing == load_existing_records_for_file(files[f], read_error)
                  IsNew(r) == r[1] \notin existing
                  new == SelectSeq(rows_by_file(running[p].batch, f), IsNew)
              IN  running' = [running EXCEPT ![p] =
                     IF new = <<>>
                     THEN NextFile([@ EXCEPT !.file = f, !.snapshot = existing,
                                             !.read_error = read_error,
                                             !.new = new], @.added)
                     ELSE [@ EXCEPT !.pc = "append", !.file = f,
                                    !.snapshot = existing,
                                    !.read_error = read_error, !.new = new]]
    /\ UNCHANGED <<files, master, last, combined, probe>>

\* lines 172-183: the new rows go to the end of the file as it is now; a
\* write that fails is logged and the loop goes on
AppendSurvivors(p) ==
    /\ running[p].pc = "append"
    /\ LET f == running[p].file
           new == running[p].new
       IN  \E write_error \in BOOLEAN :
              IF write_error
              THEN /\ \E created \in (IF files[f].exists THEN {FALSE} ELSE BOOLEAN) :
                         files' = IF created THEN [files EXCEPT ![f] = EmptyFile]
                                  ELSE files
                   /\ running' = [running EXCEPT ![p] = NextFile(@, @.added)]
              ELSE /\ Len(files[f].rows) + Len(new) <= MaxFileRows
                   /\ files' = [files EXCEPT ![f] = WritePartition(@, new)]
                   /\ running' = [running EXCEPT ![p] = NextFile(@, @.added + Len(new))]
    /\ UNCHANGED <<master, last, combined, probe>>

\* the batches of the invocations: one row each, or a row of April and a
\* row of May
RaceBatches ==
    {<<r>> : r \in ScrapedRows}
        \cup {<<Row(TS("iso_sec", 2025, 4, 11), "14.1", "10"), Row(BrokenLineTs, "14.1", "10")>>}

InitRace ==
    /\ files = [f \in FileNames |-> NoFile]
    /\ master = NoFile
    /\ last = NoRun
    /\ combined = NoOutput
    /\ probe = NoProbe
    /\ running = [p \in Procs |-> Idle]

NextRace ==
    \E p \in Procs :
        \/ \E latest_data \in RaceBatches : Invoke(p, latest_data)
        \/ LoadKeys(p)
        \/ AppendSurvivors(p)

SpecRace == InitRace /\ [][NextRace]_vars

\* how many rows of a sequence carry the raw timestamp ts
KeyCount(rows, ts) == Cardinality({i \in 1..Len(rows) : rows[i][1] = ts})

RawKeys(fs) == UNION {{fs[f].rows[i][1] : i \in 1..Len(fs[f].rows)} : f \in FileNames}

\* C15: an invocation appends the rows it found new against the keys it
\* loaded, whatever another invocation has stored in the file since then, so
\* that a row both found new is stored by both; and a raw timestamp that a
\* partition holds twice is held twice after every later step of a router.
C15_RaceDuplicates ==
    [][/\ \A p \in Procs :
             (/\ running[p].pc = "append"
              /\ running'[p].added = running[p].added + Len(running[p].new))
                => \A ts \in RawKeys(files') :
                      KeyCount(files'[running[p].file].rows, ts)
                         = KeyCount(files[running[p].file].rows, ts)
                              + KeyCount(running[p].new, ts)
       /\ \A f \in FileNames : \A ts \in RawKeys(files) :
             KeyCount(files[f].rows, ts) >= 2 => KeyCount(files'[f].rows, ts) >= 2]_vars

\* both invocations read, without an error, the same keys of the same file
\* (none: either had yet to write), both appended the same row, the file
\* holds its raw timestamp twice, and each returned 1
C15_Witness ==
    /\ \A p \in Procs :
          /\ running[p].pc = "idle"
          /\ ~running[p].read_error
          /\ running[p].outcome = "returned"
          /\ running[p].added = 1
          /\ Len(running[p].new) = 1
    /\ running[1].file = running[2].file
    /\ running[1].snapshot = running[2].snapshot
    /\ running[1].snapshot = {}
    /\ running[1].new = running[2].new
    /\ running[1].new[1][1].ws = "sp"
    /\ Len(files[running[1].file].rows) = 2
    /\ KeyCount(files[running[1].file].rows, running[1].new[1][1]) = 2

----------------------------------------------------------------------------
(* A failed write and the run after it, checked under SpecMain *)

\* the rows a reader of the file gets (csv.DictReader, pandas.read_csv): the
\* first line of a file is taken as its header, also when the file was
\* written without one
DataRows(file) ==
    IF file.header = <<>> /\ file.rows # <<>> THEN Tail(file.rows) ELSE file.rows

\* C16: a router run in which the write of a partition fails still writes
\* the other partitions of its batch and returns the number of rows it
\* wrote; and after the next run, on the same batch and without an error,
\* each row of the batch that belongs to a partition whose write had failed
\* is a data row of that partition as often as the batch holds it.
C16_WriteFailureRecovered ==
    [][/\ (last'.op = "router" /\ last'.outcome = "returned")
            => /\ last'.added
                    = SumOver(FileNames, [f \in FileNames |->
                                 Len(files'[f].rows) - Len(files[f].rows)])
               /\ \A f \in last'.write_errors : files'[f].rows = files[f].rows
               /\ \A f \in BatchKeys(last'.batch) \ last'.write_errors :
                     \A r \in Range(rows_by_file(last'.batch, f)) :
                        \E i \in 1..Len(files'[f].rows) : files'[f].rows[i][1] = r[1]
       /\ (/\ last.op = "router" /\ last.outcome = "returned"
           /\ last.write_errors # {}
           /\ last'.op = "router" /\ last'.outcome = "returned"
           /\ last'.batch = last.batch
           /\ last'.read_errors = {} /\ last'.write_errors = {})
            => \A f \in last.write_errors :
                  \A r \in Range(rows_by_file(last.batch, f)) :
                     Count(DataRows(files'[f]), r)
                        = Count(rows_by_file(last.batch, f), r)]_vars

----------------------------------------------------------------------------
(* What Combine lets through, checked under SpecCombine *)

\* C17: every row of the merged output has a timestamp (no row whose
\* timestamp could not be parsed is in it), and a latitude, a longitude and
\* a magnitude.
C17_OutputRowsComplete ==
    (last.op = "combine" /\ combined.made)
        => \A k \in 1..Len(combined.rows) :
              /\ combined.rows[k][1] # NaT
              /\ HasCoordinates(combined.rows[k])

----------------------------------------------------------------------------
(* Combine over listed files that are absent, unreadable or good *)

\* a file that read_csv reads but that lacks columns of the six (line 85
\* raises KeyError), as a file written without its header line is
BrokenFile == [exists |-> TRUE, header |-> <<"Date", "Latitude">>,
               rows |-> <<<<TS("iso_sec", 2025, 4, 11), "14.1">>>>]

\* four files of the list, each with an event of its own
SourceFiles == {FileName(2025, 3), FileName(2025, 4), MayFile, JuneFile}

SourceRow(f) ==
    CASE f = FileName(2025, 3) -> Row(TS("iso_sec", 2025, 3, 7), "14.1", "10")
      [] f = FileName(2025, 4) -> Row(TS("iso_sec", 2025, 4, 11), "14.1", "10")
      [] f = MayFile           -> Row(TS("dmy_full_dash", 2025, 5, 2), "14.1", "33")
      [] OTHER                 -> Row(TS("iso_sec", 2025, 6, 3), "14.1", "10")

\* lines 70-72, 79-82, 110-111: a listed file is not there, has no bytes
\* (read_csv raises twice), lacks columns, or loads
SourceState(f, kind) ==
    CASE kind = "missing" -> NoFile
      [] kind = "empty"   -> EmptyFile
      [] kind = "broken"  -> BrokenFile
      [] OTHER            -> StoredFile(<<SourceRow(f)>>)

InitSources ==
    /\ files \in {[f \in FileNames |->
                      IF f \in SourceFiles THEN SourceState(f, kinds[f]) ELSE NoFile] :
                   kinds \in [SourceFiles -> {"missing", "empty", "broken", "good"}]}
    /\ master = NoFile
    /\ last = NoRun
    /\ combined = NoOutput
    /\ probe = NoProbe
    /\ running = [p \in Procs |-> Idle]

NextSources == Combine

SpecSources == InitSources /\ [][NextSources]_vars

\* the listed files that are there and have the six columns
C18_Loaded ==
    {f \in Range(monthly_files) :
        files[f].exists /\ \A c \in Range(StdHeader) : \E i \in 1..Len(files[f].header) :
                                                           files[f].header[i] = c}

\* C18: Combine skips a listed file that is missing or cannot be processed
\* and still merges every other listed file: each row with coordinates of
\* each file that loads is in the output, tagged with its file, and every
\* output row comes from a file that loads; Combine makes no output exactly
\* when no listed file loads.
C18_PerFileSkip ==
    last.op = "combine"
        => /\ combined.made <=> C18_Loaded # {}
           /\ ~combined.made => combined.rows = <<>>
           /\ \A f \in C18_Loaded : \A j \in 1..Len(files[f].rows) :
                 HasCoordinates(CleanRow(files[f], files[f].rows[j], f))
                    => \E k \in 1..Len(combined.rows) :
                          combined.rows[k] = CleanRow(files[f], files[f].rows[j], f)
           /\ \A k \in 1..Len(combined.rows) : combined.rows[k][7] \in C18_Loaded

\* a run that merged the first and the last of four listed files, around
\* one that is missing and one that is there and cannot be processed
C18_Witness ==
    /\ last.op = "combine"
    /\ combined.made
    /\ Len(combined.rows) = 2
    /\ ~files[FileName(2025, 4)].exists
    /\ files[MayFile] = BrokenFile
    /\ \A f \in {FileName(2025, 3), JuneFile} : \E k \in 1..2 : combined.rows[k][7] = f

====
